---- MODULE Spec2Model ----
(***************************************************************************)
(* Model of captioner/utils.py: the BeamSearch decoding engine.            *)
(*                                                                         *)
(* A search is one call of BeamSearch.__call__.  The engine is single      *)
(* threaded; the only points where the environment acts are the calls of   *)
(* the builder callback self.build, so the model has one step per builder  *)
(* call, and each step runs the engine's code up to the next builder call  *)
(* (or up to the return / the raised exception).                           *)
(*                                                                         *)
(* Scores are log-probabilities, modelled as integers <= 0 (base-2 units). *)
(* np.exp is modelled in fixed point with its floating-point underflow:    *)
(* it is monotone but not injective, every score below -ExpUnderflow maps  *)
(* to probability 0.                                                       *)
(***************************************************************************)
EXTENDS Integers, Sequences, FiniteSets, TLC

\* ---------------------------------------------------------------- bounds
MaxBeam == 2
MaxLen == 2
MaxCands == 2
ExpUnderflow == 2

Tokens == {"a", "b"}
\* the caller-supplied initial context; the builder's contexts are opaque to
\* the engine, each builder call returns a context of its own (its number)
InitialContexts == {0}
\* one-step log-probabilities a builder may return: certain, likely, and one
\* that underflows under np.exp on its own
LogProbs == {0, -1, -(ExpUnderflow + 1)}
BeamSizes == (-1)..MaxBeam
MaxLens == (-1)..MaxLen
None == "None"

VARIABLES pc, beam_size, max_len, probabilistic, context0,
          branches, pool, idx, step, result,
          calls, widthSum, threaded, mismatch, distinctCands,
          rawPool, rawBeam, rawCount, keysAgree

vars == <<pc, beam_size, max_len, probabilistic, context0,
          branches, pool, idx, step, result,
          calls, widthSum, threaded, mismatch, distinctCands,
          rawPool, rawBeam, rawCount, keysAgree>>

\* ---------------------------------------------------------------- helpers
Min(a, b) == IF a < b THEN a ELSE b

Max(a, b) == IF a > b THEN a ELSE b

RECURSIVE Pow2(_)
Pow2(n) == IF n <= 0 THEN 1 ELSE 2 * Pow2(n - 1)

RECURSIVE SumSeq(_)
SumSeq(s) == IF s = <<>> THEN 0 ELSE s[1] + SumSeq(Tail(s))

SeqsUpTo(S, n) == UNION {[1..k -> S] : k \in 0..n}

\* np.exp(0) = 1.0 in the fixed-point scale
One == Pow2(ExpUnderflow)

\* np.exp: monotone, exp(0) = 1, underflows to 0
Exp(s) == IF s < -ExpUnderflow THEN 0 ELSE Pow2(ExpUnderflow + s)

\* Python slice x[:n], negative n included
Take(x, n) == IF n >= 0 THEN SubSeq(x, 1, Min(n, Len(x)))
              ELSE SubSeq(x, 1, Max(Len(x) + n, 0))

\* zip(contents, scores): stops at the shorter
Zip(contents, scores) ==
    [i \in 1..Min(Len(contents), Len(scores)) |-> <<contents[i], scores[i]>>]

\* ---------------------------------------------------------------- Branch
\* Branch(content, score, context); path, ret and call are history fields:
\* the one-step log-probabilities along the path, the context returned by the
\* builder call that produced the last token, and the number of that call.
Branch(content, score, context, path, ret, call) ==
    [content |-> content, score |-> score, context |-> context,
     path |-> path, ret |-> ret, call |-> call]

RootBranch(context) == Branch(<<>>, 0, context, <<>>, context, 0)

MergeDropsParent(b1, b2) ==
    Branch(b2.content, b2.score, b2.context, b1.path \o b2.path, b2.ret, b2.call)

MergeLastScore(b1, b2) ==
    Branch(b1.content \o b2.content, b2.score, b2.context,
           b1.path \o b2.path, b2.ret, b2.call)

MergeKeepsContext(b1, b2) ==
    Branch(b1.content \o b2.content, b1.score + b2.score, b1.context,
           b1.path \o b2.path, b2.ret, b2.call)

Merge(b1, b2) ==
    Branch(b1.content \o b2.content, b1.score + b2.score, b2.context,
           b1.path \o b2.path, b2.ret, b2.call)

\* ---------------------------------------------------------------- _sort_list
\* x.sort(key=exp(score), reverse=True): stable, descending
InsertDesc(s, b) ==
    LET k == Cardinality({i \in 1..Len(s) : Exp(s[i].score) >= Exp(b.score)})
    IN SubSeq(s, 1, k) \o <<b>> \o SubSeq(s, k + 1, Len(s))

RECURSIVE SortPrefix(_, _)
SortPrefix(x, n) == IF n = 0 THEN <<>> ELSE InsertDesc(SortPrefix(x, n - 1), x[n])

SortList(x) == SortPrefix(x, Len(x))

\* np.random.choice(range(len(x)), len(x), replace=False, p=probs) raises a
\* ValueError when x is empty or when some weight is 0 (or all are: NaN)
ChoiceRaises(x) == x = <<>> \/ \E i \in 1..Len(x) : Exp(x[i].score) = 0

OrdersWithReplacement(x) ==
    {[i \in 1..Len(x) |-> x[f[i]]] : f \in [1..Len(x) -> 1..Len(x)]}

\* the orders the weighted draw without replacement can produce: with all
\* weights positive, every permutation
ProbOrders(x) ==
    {[i \in 1..Len(x) |-> x[f[i]]] :
        f \in {g \in [1..Len(x) -> 1..Len(x)] :
                  \A i, j \in 1..Len(x) : i # j => g[i] # g[j]}}

\* ---------------------------------------------------------------- pruning
PruneKeepsAll(brs, bs) == SortList(brs)

\* _prune_branches, deterministic mode
PruneBranches(brs, bs) == Take(SortList(brs), bs)

\* _prune_branches, probabilistic mode: the possible results
ProbPrunes(brs, bs) == {Take(o, bs) : o \in ProbOrders(brs)}

\* the nodes of one builder call
Nodes(contents, scores, context, call) ==
    LET z == Zip(contents, scores)
    IN [i \in 1..Len(z) |-> Branch(<<z[i][1]>>, z[i][2], context, <<z[i][2]>>, context, call)]

GetBranchesLocalOffByOne(branch, bs, prob, contents, scores, context, call) ==
    LET nodes == Nodes(contents, scores, context, call)
        kept == IF ~prob THEN PruneBranches(nodes, bs - 1) ELSE nodes
    IN [i \in 1..Len(kept) |-> Merge(branch, kept[i])]

\* _get_branches, given what the builder returned
GetBranches(branch, bs, prob, contents, scores, context, call) ==
    LET nodes == Nodes(contents, scores, context, call)
        kept == IF ~prob THEN PruneBranches(nodes, bs) ELSE nodes
    IN [i \in 1..Len(kept) |-> Merge(branch, kept[i])]

\* all candidates of the call merged with the parent, no intra-branch prune
RawBranches(branch, contents, scores, context, call) ==
    LET nodes == Nodes(contents, scores, context, call)
    IN [i \in 1..Len(nodes) |-> Merge(branch, nodes[i])]

FinalizeRaw(brs) ==
    [i \in 1..Len(brs) |-> [content |-> brs[i].content, score |-> brs[i].score, context |-> None]]

\* line 37: scores to probability space, context dropped
Finalize(brs) ==
    [i \in 1..Len(brs) |-> [content |-> brs[i].content, score |-> Exp(brs[i].score), context |-> None]]

\* ---------------------------------------------------------------- state
Init ==
    /\ pc = "idle"
    /\ beam_size = 1
    /\ max_len = 0
    /\ probabilistic = FALSE
    /\ context0 = 0
    /\ branches = <<>>
    /\ pool = <<>>
    /\ idx = 0
    /\ step = 0
    /\ result = <<>>
    /\ calls = 0
    /\ widthSum = 0
    /\ threaded = TRUE
    /\ mismatch = FALSE
    /\ distinctCands = TRUE
    /\ rawPool = <<>>
    /\ rawBeam = <<>>
    /\ rawCount = 0
    /\ keysAgree = TRUE

Params == <<beam_size, max_len, probabilistic, context0>>

\* __call__ / _search up to the first builder call: with max_len <= 0 the loop
\* body never runs and the root is returned
Search(bs, ctx, ml, prob) ==
    /\ pc = "idle"
    /\ beam_size' = bs
    /\ max_len' = ml
    /\ probabilistic' = prob
    /\ context0' = ctx
    /\ branches' = <<RootBranch(ctx)>>
    /\ pool' = <<>>
    /\ step' = 0
    /\ rawBeam' = <<RootBranch(ctx)>>
    /\ rawCount' = 1
    /\ IF ml <= 0
       THEN /\ pc' = "done"
            /\ idx' = 0
            /\ result' = Finalize(<<RootBranch(ctx)>>)
            /\ widthSum' = 0
       ELSE /\ pc' = "expand"
            /\ idx' = 1
            /\ result' = <<>>
            /\ widthSum' = 1
    /\ UNCHANGED <<calls, threaded, mismatch, distinctCands, rawPool, keysAgree>>

\* what one builder call records
CallRecord(branch, contents, scores, context) ==
    /\ calls' = calls + 1
    /\ threaded' = (threaded /\ branch.context = branch.ret
                              /\ Len(branch.content) = step
                              /\ (branch.content = <<>> => branch.context = context0))
    /\ mismatch' = (mismatch \/ Len(contents) # Len(scores))
    /\ distinctCands' = (distinctCands /\
                         \A i, j \in 1..Len(contents) : i # j => contents[i] # contents[j])

\* the candidates of one call keep, once merged with the parent, the ties and
\* only the ties that their one-step keys have
KeysAgree(branch, contents, scores) ==
    LET z == Zip(contents, scores)
    IN \A i, j \in 1..Len(z) :
          (Exp(z[i][2]) = Exp(z[j][2])) <=>
          (Exp(branch.score + z[i][2]) = Exp(branch.score + z[j][2]))

ExpandSkipsBranch(contents, scores, context) ==
    /\ pc = "expand"
    /\ idx < Len(branches)
    /\ idx' = idx + 1
    /\ UNCHANGED <<pc, branches, pool, step, result, calls, widthSum, threaded, mismatch,
                   distinctCands, rawPool, rawBeam, rawCount, keysAgree>>
    /\ UNCHANGED <<beam_size, max_len, probabilistic, context0>>

\* the builder call for a branch that is not the last of the beam: its
\* branches join the step's pool
Expand(contents, scores, context) ==
    /\ pc = "expand"
    /\ idx < Len(branches)
    /\ CallRecord(branches[idx], contents, scores, context)
    /\ pool' = pool \o GetBranches(branches[idx], beam_size, probabilistic,
                                   contents, scores, context, calls + 1)
    /\ rawPool' = rawPool \o RawBranches(branches[idx], contents, scores, context, calls + 1)
    /\ keysAgree' = ((idx = 1 \/ keysAgree) /\ KeysAgree(branches[idx], contents, scores))
    /\ idx' = idx + 1
    /\ UNCHANGED <<pc, branches, step, result, widthSum, rawBeam, rawCount>>
    /\ UNCHANGED Params

\* the engine after the global prune of a step left `beam`: next step, or the
\* return.  An empty beam makes the remaining steps call no builder: the
\* deterministic sort of the empty pool is empty, the probabilistic draw raises.
Advance(beam) ==
    /\ pool' = <<>>
    /\ rawPool' = <<>>
    /\ branches' = beam
    /\ IF step + 1 = max_len
       THEN /\ pc' = "done"
            /\ step' = step + 1
            /\ idx' = 0
            /\ result' = Finalize(beam)
            /\ widthSum' = widthSum
       ELSE IF beam = <<>>
       THEN /\ pc' = IF probabilistic THEN "error" ELSE "done"
            /\ step' = IF probabilistic THEN step + 1 ELSE max_len
            /\ idx' = 0
            /\ result' = <<>>
            /\ widthSum' = widthSum
       ELSE /\ pc' = "expand"
            /\ step' = step + 1
            /\ idx' = 1
            /\ result' = <<>>
            /\ widthSum' = widthSum + Len(beam)

\* the builder call for the last branch of the beam, deterministic mode: the
\* pool is complete and is pruned to the next beam
ExpandLast(contents, scores, context) ==
    /\ pc = "expand"
    /\ idx = Len(branches)
    /\ ~probabilistic
    /\ CallRecord(branches[idx], contents, scores, context)
    /\ LET full == pool \o GetBranches(branches[idx], beam_size, probabilistic,
                                       contents, scores, context, calls + 1)
           raw == rawPool \o RawBranches(branches[idx], contents, scores, context, calls + 1)
       IN /\ rawBeam' = PruneBranches(raw, beam_size)
          /\ rawCount' = Len(raw)
          /\ Advance(PruneBranches(full, beam_size))
    /\ keysAgree' = ((idx = 1 \/ keysAgree) /\ KeysAgree(branches[idx], contents, scores))
    /\ UNCHANGED Params

\* the same in probabilistic mode: the draw orders the pool
ExpandLastProb(contents, scores, context) ==
    /\ pc = "expand"
    /\ idx = Len(branches)
    /\ probabilistic
    /\ CallRecord(branches[idx], contents, scores, context)
    /\ LET full == pool \o GetBranches(branches[idx], beam_size, probabilistic,
                                       contents, scores, context, calls + 1)
       IN /\ ~ChoiceRaises(full)
          /\ \E beam \in ProbPrunes(full, beam_size) : Advance(beam)
    /\ UNCHANGED <<rawBeam, rawCount, keysAgree>>
    /\ UNCHANGED Params

\* the draw raises: the exception leaves the search, nothing is returned
ExpandLastRaise(contents, scores, context) ==
    /\ pc = "expand"
    /\ idx = Len(branches)
    /\ probabilistic
    /\ CallRecord(branches[idx], contents, scores, context)
    /\ ChoiceRaises(pool \o GetBranches(branches[idx], beam_size, probabilistic,
                                        contents, scores, context, calls + 1))
    /\ pc' = "error"
    /\ pool' = pool \o GetBranches(branches[idx], beam_size, probabilistic,
                                   contents, scores, context, calls + 1)
    /\ UNCHANGED <<branches, idx, step, result, widthSum, rawPool, rawBeam, rawCount, keysAgree>>
    /\ UNCHANGED Params

\* the builder raises: the exception leaves the search, nothing is returned
BuildRaises ==
    /\ pc = "expand"
    /\ pc' = "error"
    /\ calls' = calls + 1
    /\ threaded' = (threaded /\ branches[idx].context = branches[idx].ret
                              /\ (branches[idx].content = <<>> => branches[idx].context = context0))
    /\ UNCHANGED <<branches, pool, idx, step, result, widthSum, mismatch, distinctCands,
                   rawPool, rawBeam, rawCount, keysAgree>>
    /\ UNCHANGED Params

\* what a builder call can return: contents, scores, and a context of its own
BuilderContents == SeqsUpTo(Tokens, MaxCands)

BuilderScores == SeqsUpTo(LogProbs, MaxCands)

Next ==
    \/ \E bs \in BeamSizes, ctx \in InitialContexts, ml \in MaxLens, prob \in BOOLEAN :
          Search(bs, ctx, ml, prob)
    \/ \E contents \in BuilderContents, scores \in BuilderScores :
          Expand(contents, scores, calls + 1)
    \/ \E contents \in BuilderContents, scores \in BuilderScores :
          ExpandLast(contents, scores, calls + 1)
    \/ \E contents \in BuilderContents, scores \in BuilderScores :
          ExpandLastProb(contents, scores, calls + 1)
    \/ \E contents \in BuilderContents, scores \in BuilderScores :
          ExpandLastRaise(contents, scores, calls + 1)
    \/ BuildRaises

Spec == Init /\ [][Next]_vars

\* ---------------------------------------------------------------- claims
Returned == pc = "done"

Running == pc \in {"expand", "done"}

InSeq(s) == {s[i] : i \in 1..Len(s)}

NoDuplicateContent(s) == \A i, j \in 1..Len(s) : i # j => s[i].content # s[j].content

\* C1 as stated: a deterministic search with beam_size >= 1 and max_len >= 0
\* returns at most beam_size branches, in non-increasing order of probability
\* and, equivalently, of cumulative score.
C1_SortedByProbabilityAndScore ==
    (Returned /\ ~probabilistic /\ beam_size >= 1 /\ max_len >= 0) =>
        /\ Len(result) <= beam_size
        /\ \A i, j \in 1..Len(result) :
              i < j => /\ result[i].score >= result[j].score
                       /\ branches[i].score >= branches[j].score

\* C1 amended: at most beam_size branches, in non-increasing order of
\* probability; the cumulative scores decrease wherever the probabilities
\* differ, and may be in any order among branches of equal probability.
C1_SortedByProbability ==
    (Returned /\ ~probabilistic /\ beam_size >= 1 /\ max_len >= 0) =>
        /\ Len(result) <= beam_size
        /\ \A i, j \in 1..Len(result) :
              i < j => /\ result[i].score >= result[j].score
                       /\ (result[i].score # result[j].score
                              => branches[i].score > branches[j].score)

C1_Witness ==
    /\ Returned /\ ~probabilistic /\ beam_size = 2 /\ max_len = 2
    /\ calls = 3
    /\ Len(result) = 2
    /\ result[1].score > result[2].score
    /\ result[2].score > 0

\* C2: a call with beam_size <= 0 or max_len < 0 ends in a configuration
\* error, with no builder call made and no beam returned.
C2_InvalidParametersRejected ==
    (pc # "idle" /\ (beam_size <= 0 \/ max_len < 0)) =>
        (pc = "error" /\ calls = 0 /\ result = <<>>)

\* C3: once a builder call has returned contents and scores of different
\* lengths the search is in error: no branch is built from the zipped prefix
\* and no beam is returned.
C3_MismatchIsError == mismatch => pc = "error"

\* C4: with max_len >= 0 and beam_size >= 1, in both modes, after k completed
\* steps every branch of the beam has content of length k (the branches
\* pooled during step k+1 have k+1), and every returned branch has content
\* of length max_len.
C4_ContentLength ==
    (Running /\ max_len >= 0 /\ beam_size >= 1) =>
        /\ \A b \in InSeq(branches) : Len(b.content) = step
        /\ \A b \in InSeq(pool) : Len(b.content) = step + 1
        /\ Returned => \A r \in InSeq(result) : Len(r.content) = max_len

C4_Witness ==
    /\ Returned /\ probabilistic /\ max_len = 2 /\ beam_size = 2
    /\ Len(result) = 2

\* C5: the score of every branch of the beam and of the pool is the sum of
\* the one-step log-probabilities the builder returned along its path, one
\* per token; the root has score 0.
C5_ScoreIsPathSum ==
    (pc # "idle") =>
        /\ \A b \in InSeq(branches) \cup InSeq(pool) :
              /\ b.score = SumSeq(b.path)
              /\ Len(b.path) = Len(b.content)
        /\ step = 0 => (Len(branches) = 1 /\ branches[1].score = 0
                        /\ branches[1].content = <<>>)

C5_Witness ==
    /\ Returned /\ max_len = 2
    /\ \E b \in InSeq(branches) : b.path = <<-1, -(ExpUnderflow + 1)>>

\* C6: in deterministic mode the number of builder calls made so far is the
\* sum of the beam widths of the started steps, less the branches of the
\* current step not yet expanded: one call per branch per step.  With
\* beam_size >= 1 the width is 1 at the first step and at most beam_size after.
C6_BuilderCalls ==
    (Running /\ ~probabilistic) =>
        /\ calls = widthSum - (IF pc = "expand" THEN Len(branches) - idx + 1 ELSE 0)
        /\ beam_size >= 1 => Len(branches) <= (IF step = 0 THEN 1 ELSE beam_size)

C6_Witness ==
    /\ Returned /\ ~probabilistic /\ max_len = 2 /\ beam_size = 2
    /\ calls = 3

\* C7: the builder call for the root receives empty content and the caller's
\* initial context; every later call receives the branch's content (one token
\* per completed step) and the context returned by the call that produced its
\* last token (threaded records this over all calls made so far); every
\* branch carries that returned context, the same for all branches made from
\* one call.
C7_ContextThreading ==
    (pc # "idle" /\ calls > 0) =>
        /\ threaded
        /\ \A b \in InSeq(branches) \cup InSeq(pool) : b.call > 0 => b.context = b.ret
        /\ \A a, b \in InSeq(pool) : a.call = b.call => a.context = b.context

C7_Witness ==
    /\ Returned /\ calls = 3 /\ threaded
    /\ Len(branches) = 2
    /\ branches[1].context # branches[2].context

\* C8: in probabilistic mode, when every builder call returned pairwise
\* distinct tokens, the beam after each global prune and the returned beam
\* hold no two branches of the same content and at most beam_size branches.
C8_WithoutReplacement ==
    (Running /\ probabilistic /\ distinctCands /\ beam_size >= 1) =>
        /\ NoDuplicateContent(branches)
        /\ Len(branches) <= beam_size
        /\ Returned => (NoDuplicateContent(result) /\ Len(result) <= beam_size)

C8_Witness ==
    /\ Returned /\ probabilistic /\ distinctCands /\ beam_size = 2 /\ max_len = 2
    /\ calls = 3
    /\ Len(result) = 2

\* C9: a search with max_len = 0 and beam_size >= 1 makes no builder call and
\* returns exactly one branch, of empty content and probability 1.
C9_ZeroLength ==
    (Returned /\ max_len = 0 /\ beam_size >= 1) =>
        /\ calls = 0
        /\ result = <<[content |-> <<>>, score |-> One, context |-> None]>>

C9_Witness == Returned /\ max_len = 0 /\ beam_size = 2 /\ probabilistic

AfterPrune == (pc = "expand" /\ idx = 1) \/ pc = "done"

\* C10 as stated: in deterministic mode the beam after each step equals, in
\* content and order, the global top beam_size of all candidates of all
\* parents taken without the intra-branch prune.
C10_LocalPruneNeutral ==
    (AfterPrune /\ ~probabilistic /\ beam_size >= 1) => branches = rawBeam

\* C10 amended: the same, for the steps in which the candidates of each call
\* have equal keys exp(parent score + score) exactly when they have equal
\* keys exp(score); a pool of fewer than beam_size candidates is kept whole.
C10_LocalPruneNeutralWhenKeysAgree ==
    (AfterPrune /\ ~probabilistic /\ beam_size >= 1 /\ keysAgree) =>
        /\ branches = rawBeam
        /\ rawCount < beam_size => Len(branches) = rawCount

C10_Witness ==
    /\ Returned /\ ~probabilistic /\ beam_size = 1 /\ max_len = 2 /\ keysAgree
    /\ rawCount = 2
    /\ branches = rawBeam
    /\ Len(branches) = 1
    /\ branches[1].path = <<-1, 0>>

====
